---- MODULE Spec2Model ----
(***************************************************************************)
(* A model of lib/SILOptimizer/Transforms/PhiArgumentOptimizations.cpp:    *)
(* RedundantPhiEliminationPass and PhiExpansionPass over a small SIL-like  *)
(* IR (values, blocks with arguments, branch terminators).                 *)
(***************************************************************************)
EXTENDS Integers, Sequences, FiniteSets, TLC

VARIABLES
    vals,        \* the function's values: Seq of value records, id = index
    blocks,      \* the function's basic blocks: Seq of block records
    hasOwn,      \* SILFunction::hasOwnership()
    shouldOpt,   \* SILFunction::shouldOptimize()
    vals0,       \* values of the function as the first run found it
    blocks0,     \* blocks of the function as the first run found it
    pc,          \* position of the pass
    runNo,       \* which run of the pass is executing (1 or 2)
    blk,         \* block of the current optimizeArgs call
    arg1Idx,     \* optimizeArgs: arg1Idx (0-based, as in the code)
    arg2Idx,     \* optimizeArgs: arg2Idx (0-based)
    numComb,     \* optimizeArgs: numArgumentCombinations
    changed,     \* optimizeArgs: changed
    runChanged,  \* run: changed
    invalidated, \* per run: was invalidateAnalysis called
    eqCalls,     \* number of valuesAreEqual calls of the current optimizeArgs
    tested,      \* the pairs the current optimizeArgs has compared
    lastEq,      \* the last valuesAreEqual call: arguments and outcome
    log,         \* per run: what the run did to the function
    argIdx,      \* PhiExpansionPass::run: idx (0-based, as in the code)
    lastOpt      \* the last optimizeArg call: argument, outcome, the IR before

vars == <<vals, blocks, hasOwn, shouldOpt, vals0, blocks0, pc, runNo, blk,
          arg1Idx, arg2Idx, numComb, changed, runChanged, invalidated,
          eqCalls, tested, lastEq, log, argIdx, lastOpt>>

----------------------------------------------------------------------------
(* Bounds of the model *)

\* most phi arguments of the loop header in the loop functions
MaxArgs == 4
\* most loop iterations a concrete execution takes
MaxIter == 2
\* arguments of the block of the wide functions
WideArgs == 12
\* longest chain of instructions feeding a phi in the chain functions
MaxChain == 16

(* Program constants *)

maxArgumentCombinations == 48
maxNumberOfChecks == 16

\* value domain of concrete executions: integers modulo Modulus
Modulus == 7

----------------------------------------------------------------------------
(* Sequence helpers *)

Range(s) == {s[i] : i \in DOMAIN s}

RemoveAt(s, i) == [j \in 1..(Len(s) - 1) |-> IF j < i THEN s[j] ELSE s[j + 1]]

InsertFront(s, x) == <<x>> \o s

IndexOf(s, x) == IF x \in Range(s) THEN CHOOSE i \in DOMAIN s : s[i] = x ELSE 0

\* ascending sequence of a finite set of integers
RECURSIVE SetToSeq(_)
SetToSeq(S) ==
    IF S = {} THEN <<>>
    ELSE LET m == CHOOSE x \in S : \A y \in S : x <= y
         IN <<m>> \o SetToSeq(S \ {m})

----------------------------------------------------------------------------
(* The IR *)

\* a value: a block argument or an instruction (its result, if it has one)
Value(kind, op, attr, ops, ty, own) ==
    [kind |-> kind, op |-> op, attr |-> attr, ops |-> ops, ty |-> ty, own |-> own]

PhiArg(ty, own)  == Value("SILPhiArgument", "", 0, <<>>, ty, own)
FuncArg(ty, own) == Value("SILFunctionArgument", "", 0, <<>>, ty, own)
Inst(op, attr, ops, ty, own) == Value("inst", op, attr, ops, ty, own)

\* a basic block: arguments, instructions in order, terminator
Block(args, body, tkind, cond, dests, targs) ==
    [args |-> args, body |-> body, tkind |-> tkind, cond |-> cond,
     dests |-> dests, targs |-> targs]

IsArgument(V, v) == V[v].kind \in {"SILPhiArgument", "SILFunctionArgument"}

\* SILArgument::getParent: 0 for an erased argument
getParent(B, v) ==
    IF \E b \in DOMAIN B : v \in Range(B[b].args)
    THEN CHOOSE b \in DOMAIN B : v \in Range(B[b].args)
    ELSE 0

\* SILArgument::getIndex (1-based here)
getIndex(B, v) == IndexOf(B[getParent(B, v)].args, v)

\* SILBasicBlock::getPredecessorBlocks
getPredecessorBlocks(B, b) ==
    SetToSeq({p \in DOMAIN B : b \in Range(B[p].dests)})

\* ValueBase::getKind: the argument class, or the instruction's opcode
getKind(V, v) == IF V[v].kind = "inst" THEN V[v].op ELSE V[v].kind

\* ValueBase::getOwnershipKind: None for everything without ownership SSA
getOwnershipKind(V, own, v) == IF own THEN V[v].own ELSE "None"

\* SILPhiArgument::isPhi: every predecessor reaches the block by br / cond_br
PhiArgIsPhi(B, v) ==
    /\ getParent(B, v) # 0
    /\ \A p \in Range(getPredecessorBlocks(B, getParent(B, v))) :
          B[p].tkind \in {"br", "cond_br"}

\* SILArgument::isPhi
isPhi(V, B, v) ==
    IF V[v].kind = "SILPhiArgument" THEN PhiArgIsPhi(B, v) ELSE FALSE

\* the slot of terminator of p that targets block b (the first, as
\* CondBranchInst::getArgForDestBB looks at the true block first)
DestSlot(B, p, b) == CHOOSE j \in DOMAIN B[p].dests :
                        /\ B[p].dests[j] = b
                        /\ \A k \in 1..(j - 1) : B[p].dests[k] # b

\* SILArgument::getIncomingPhiValue: 0 is the invalid SILValue
getIncomingPhiValue(V, B, v, p) ==
    IF isPhi(V, B, v)
    THEN B[p].targs[DestSlot(B, p, getParent(B, v))][getIndex(B, v)]
    ELSE 0

\* is instruction i linked into a block
InFunction(B, i) == \E b \in DOMAIN B : i \in Range(B[b].body)

\* the instructions using v (ValueBase::getUses, instruction users)
InstUsers(V, B, v) ==
    {i \in DOMAIN V : /\ V[i].kind = "inst"
                      /\ InFunction(B, i)
                      /\ v \in Range(V[i].ops)}

\* the terminators using v as a branch argument: <<block, slot, index>>
BranchUses(B, v) ==
    {u \in UNION {UNION {{<<b, j, k>> : k \in DOMAIN B[b].targs[j]} :
                         j \in DOMAIN B[b].targs} : b \in DOMAIN B} :
        B[u[1]].targs[u[2]][u[3]] = v}

\* the terminators using v as their condition
CondUses(B, v) == {b \in DOMAIN B : B[b].cond = v}

\* ValueBase::use_empty
use_empty(V, B, v) ==
    InstUsers(V, B, v) = {} /\ BranchUses(B, v) = {} /\ CondUses(B, v) = {}

\* ValueBase::replaceAllUsesWith on the instructions' operands
RauwVals(V, old, new) ==
    [i \in DOMAIN V |->
        [V[i] EXCEPT !.ops = [k \in DOMAIN V[i].ops |->
                                 IF V[i].ops[k] = old THEN new ELSE V[i].ops[k]]]]

\* ValueBase::replaceAllUsesWith on the terminators' operands
RauwBlocks(B, old, new) ==
    [b \in DOMAIN B |->
        [B[b] EXCEPT
            !.cond = IF B[b].cond = old THEN new ELSE B[b].cond,
            !.targs = [j \in DOMAIN B[b].targs |->
                          [k \in DOMAIN B[b].targs[j] |->
                              IF B[b].targs[j][k] = old THEN new
                              ELSE B[b].targs[j][k]]]]]

\* SILInstruction::getMemoryBehavior() != MemoryBehavior::None
HasMemoryBehavior(op) ==
    op \in {"apply", "copy_value", "destroy_value", "debug_value", "alloc_ref"}

\* isa<AllocationInst>
IsAllocationInst(op) == op \in {"alloc_ref", "alloc_stack"}

\* SILInstruction::isIdenticalTo, the part before the operands are compared:
\* same kind, same number of operands, same result type
IdenticalShape(V, i1, i2) ==
    /\ V[i1].op = V[i2].op
    /\ Len(V[i1].ops) = Len(V[i2].ops)
    /\ V[i1].ty = V[i2].ty

\* SILInstruction::hasIdenticalState: what the operands and type do not say
hasIdenticalState(V, i1, i2) == V[i1].attr = V[i2].attr

----------------------------------------------------------------------------
(* RedundantPhiEliminationPass::valuesAreEqual *)

\* handled.insert(pair).second, then workList.push_back(pair), for each pair
RECURSIVE PushPairs(_, _, _)
PushPairs(workList, handled, pairs) ==
    IF pairs = <<>> THEN [workList |-> workList, handled |-> handled]
    ELSE IF Head(pairs) \in handled
         THEN PushPairs(workList, handled, Tail(pairs))
         ELSE PushPairs(Append(workList, Head(pairs)),
                        handled \cup {Head(pairs)}, Tail(pairs))

\* the cap on the visited pairs, tested at the head of the loop
ExceedsMaxChecksNoCap(handled) == FALSE
ExceedsMaxChecks(handled) == Cardinality(handled) > maxNumberOfChecks

\* two phi arguments that can never be merged: different blocks or types
PhiPairMismatch(V, B, a1, a2) ==
    \/ getParent(B, a1) # getParent(B, a2)
    \/ V[a1].ty # V[a2].ty

\* "Don't optimize if we have a phi arg with @guaranteed ownership"
HasGuaranteedNoCheck(V, own, a1, a2) == FALSE
HasGuaranteed(V, own, a1, a2) ==
    \/ getOwnershipKind(V, own, a1) = "Guaranteed"
    \/ getOwnershipKind(V, own, a2) = "Guaranteed"

\* the pairs of incoming values of two phi arguments, one per predecessor
IncomingPairsFirstPred(V, B, a1, a2) ==
    LET preds == getPredecessorBlocks(B, getParent(B, a1))
    IN [n \in 1..(IF Len(preds) > 0 THEN 1 ELSE 0) |->
           <<getIncomingPhiValue(V, B, a1, preds[n]),
             getIncomingPhiValue(V, B, a2, preds[n])>>]
IncomingPairs(V, B, a1, a2) ==
    LET preds == getPredecessorBlocks(B, getParent(B, a1))
    IN [n \in DOMAIN preds |->
           <<getIncomingPhiValue(V, B, a1, preds[n]),
             getIncomingPhiValue(V, B, a2, preds[n])>>]

\* the pairs of corresponding operands of two instructions
OperandPairs(V, i1, i2) ==
    [k \in DOMAIN V[i1].ops |-> <<V[i1].ops[k], V[i2].ops[k]>>]

\* instructions that are never equal to another one
InstRejectedNever(V, i1) == FALSE
InstRejected(V, i1) ==
    \/ HasMemoryBehavior(V[i1].op)
    \/ IsAllocationInst(V[i1].op)

\* the while loop: result, number of pairs popped, size of handled at the end
RECURSIVE valuesAreEqualLoop(_, _, _, _, _, _)
valuesAreEqualLoop(V, B, own, workList, handled, pops) ==
    LET Out(r, p) == [res |-> r, pops |-> p, handled |-> Cardinality(handled)]
    IN
    IF workList = <<>> THEN Out(TRUE, pops)
    ELSE IF ExceedsMaxChecks(handled) THEN Out(FALSE, pops)
    ELSE
      LET val1 == workList[Len(workList)][1]
          val2 == workList[Len(workList)][2]
          rest == SubSeq(workList, 1, Len(workList) - 1)
      IN
      IF val1 = val2
      THEN valuesAreEqualLoop(V, B, own, rest, handled, pops + 1)
      ELSE IF getKind(V, val1) # getKind(V, val2) THEN Out(FALSE, pops + 1)
      ELSE IF V[val1].kind = "SILPhiArgument"
      THEN IF PhiPairMismatch(V, B, val1, val2) THEN Out(FALSE, pops + 1)
           ELSE IF HasGuaranteed(V, own, val1, val2) THEN Out(FALSE, pops + 1)
           ELSE LET pairs == IncomingPairs(V, B, val1, val2)
                IN IF \E n \in DOMAIN pairs : pairs[n][1] = 0 \/ pairs[n][2] = 0
                   THEN Out(FALSE, pops + 1)
                   ELSE LET next == PushPairs(rest, handled, pairs)
                        IN valuesAreEqualLoop(V, B, own, next.workList,
                                              next.handled, pops + 1)
      ELSE IF V[val1].kind = "inst"
      THEN IF InstRejected(V, val1) THEN Out(FALSE, pops + 1)
           ELSE IF ~IdenticalShape(V, val1, val2) THEN Out(FALSE, pops + 1)
           ELSE LET next == PushPairs(rest, handled, OperandPairs(V, val1, val2))
                IN IF ~hasIdenticalState(V, val1, val2)
                   THEN Out(FALSE, pops + 1)
                   ELSE valuesAreEqualLoop(V, B, own, next.workList,
                                           next.handled, pops + 1)
      ELSE Out(FALSE, pops + 1)

valuesAreEqual(V, B, own, val1, val2) ==
    valuesAreEqualLoop(V, B, own, <<<<val1, val2>>>>, {<<val1, val2>>}, 0)

----------------------------------------------------------------------------
(* Mutation of the block arguments (CFGOptUtils, SILBuilder) *)

\* SILPhiArgument::getIncomingPhiValues: one value per predecessor
getIncomingPhiValues(V, B, phi) ==
    LET preds == getPredecessorBlocks(B, getParent(B, phi))
    IN [n \in DOMAIN preds |-> getIncomingPhiValue(V, B, phi, preds[n])]

\* the inner loop of hasOnlyNoneOwnershipIncomingValues over the incoming
\* values: the worklist it leaves, or ok = FALSE for `return false`
RECURSIVE ScanIncoming(_, _, _, _, _)
ScanIncoming(V, B, own, incoming, worklist) ==
    IF incoming = <<>> THEN [ok |-> TRUE, worklist |-> worklist]
    ELSE LET v == Head(incoming)
         IN IF getOwnershipKind(V, own, v) = "None"
            THEN ScanIncoming(V, B, own, Tail(incoming), worklist)
            ELSE IF V[v].kind = "SILPhiArgument" /\ isPhi(V, B, v)
            THEN ScanIncoming(V, B, own, Tail(incoming),
                              IF v \in Range(worklist) THEN worklist
                              ELSE Append(worklist, v))
            ELSE [ok |-> FALSE, worklist |-> worklist]

\* the outer loop: one round per worklist entry, and every round reads the
\* incoming values of `phi`, the argument the function was called on
RECURSIVE ScanWorklist(_, _, _, _, _, _)
ScanWorklist(V, B, own, phi, worklist, idx) ==
    IF idx >= Len(worklist) THEN TRUE
    ELSE LET r == ScanIncoming(V, B, own, getIncomingPhiValues(V, B, phi),
                               worklist)
         IN r.ok /\ ScanWorklist(V, B, own, phi, r.worklist, idx + 1)

hasOnlyNoneOwnershipIncomingValues(V, B, own, phi) ==
    ScanWorklist(V, B, own, phi, <<phi>>, 0)

\* the asserts of optimizeArgs on a pair found equal: on both arguments if
\* both are Owned, and on the Owned one next to a None one
AssertsHold(V, B, own, a1, a2) ==
    LET o1 == getOwnershipKind(V, own, a1)
        o2 == getOwnershipKind(V, own, a2)
    IN IF ~own THEN TRUE
       ELSE IF o1 = "Owned" /\ o2 = "Owned"
       THEN /\ hasOnlyNoneOwnershipIncomingValues(V, B, own, a1)
            /\ hasOnlyNoneOwnershipIncomingValues(V, B, own, a2)
       ELSE IF o1 = "Owned" /\ o2 = "None"
       THEN hasOnlyNoneOwnershipIncomingValues(V, B, own, a1)
       ELSE IF o1 = "None" /\ o2 = "Owned"
       THEN hasOnlyNoneOwnershipIncomingValues(V, B, own, a2)
       ELSE TRUE

\* Operand::isLifetimeEnding of a branch operand: the branch consumes an
\* owned value it passes on
isLifetimeEnding(V, own, v) == getOwnershipKind(V, own, v) = "Owned"

\* erasePhiArgument: drop the argument and the operand of every incoming edge
erasePhiArgument(B, b, idx) ==
    [p \in DOMAIN B |->
        LET cut == [B[p] EXCEPT
                      !.targs = [j \in DOMAIN B[p].targs |->
                                    IF B[p].dests[j] = b
                                    THEN RemoveAt(B[p].targs[j], idx)
                                    ELSE B[p].targs[j]]]
        IN IF p = b THEN [cut EXCEPT !.args = RemoveAt(B[b].args, idx)]
           ELSE cut]

\* the visitor of eraseOwnedPhiArgument over the incoming operands of the
\* argument at idx, predecessor by predecessor: a destroy_value of every
\* lifetime-ending operand, right before the branch
RECURSIVE InsertDestroys(_, _, _, _, _, _)
InsertDestroys(V, B, own, b, idx, preds) ==
    IF preds = <<>> THEN [vals |-> V, blocks |-> B]
    ELSE LET p == Head(preds)
             v == B[p].targs[DestSlot(B, p, b)][idx]
             d == Len(V) + 1
         IN IF isLifetimeEnding(V, own, v)
            THEN InsertDestroys(
                     Append(V, Inst("destroy_value", 0, <<v>>, "Void", "None")),
                     [B EXCEPT ![p].body = Append(B[p].body, d)],
                     own, b, idx, Tail(preds))
            ELSE InsertDestroys(V, B, own, b, idx, Tail(preds))

\* the same visitor, forgetting the destroys
eraseOwnedPhiArgumentNoDestroy(V, B, own, b, idx) ==
    [vals |-> V, blocks |-> erasePhiArgument(B, b, idx)]

eraseOwnedPhiArgument(V, B, own, b, idx) ==
    LET d == InsertDestroys(V, B, own, b, idx, getPredecessorBlocks(B, b))
    IN [vals |-> d.vals, blocks |-> erasePhiArgument(d.blocks, b, idx)]

\* phi2->replaceAllUsesWith(phi1); erasePhiArgument(block, arg2Idx)
MergePlainNoRauw(V, B, b, i1, i2) ==
    [vals |-> V, blocks |-> erasePhiArgument(B, b, i2)]

MergePlain(V, B, b, i1, i2) ==
    LET a1 == B[b].args[i1]
        a2 == B[b].args[i2]
    IN [vals |-> RauwVals(V, a2, a1),
        blocks |-> erasePhiArgument(RauwBlocks(B, a2, a1), b, i2)]

\* the merge of the arguments at i1 < i2 (1-based) of block b, once
\* valuesAreEqual has returned true for them
MergeArgsKeepFirst(V, B, own, b, i1, i2) == MergePlain(V, B, b, i1, i2)

MergeArgs(V, B, own, b, i1, i2) ==
    LET a1 == B[b].args[i1]
        a2 == B[b].args[i2]
        o1 == getOwnershipKind(V, own, a1)
        o2 == getOwnershipKind(V, own, a2)
        copy == Len(V) + 1
    IN IF ~own THEN MergePlain(V, B, b, i1, i2)
       ELSE IF o1 = "Owned" /\ o2 = "Owned"
       THEN LET V1 == Append(RauwVals(V, a2, copy),
                             Inst("copy_value", 0, <<a1>>, V[a1].ty, "Owned"))
                B1 == [RauwBlocks(B, a2, copy) EXCEPT
                          ![b].body = InsertFront(B[b].body, copy)]
            IN eraseOwnedPhiArgument(V1, B1, own, b, i2)
       ELSE IF o1 = "Owned" /\ o2 = "None"
       THEN eraseOwnedPhiArgument(RauwVals(V, a1, a2), RauwBlocks(B, a1, a2),
                                  own, b, i1)
       ELSE IF o1 = "None" /\ o2 = "Owned"
       THEN eraseOwnedPhiArgument(RauwVals(V, a2, a1), RauwBlocks(B, a2, a1),
                                  own, b, i2)
       ELSE MergePlain(V, B, b, i1, i2)

----------------------------------------------------------------------------
(* The functions the passes are run on *)

Func(V, B, own) == [vals |-> V, blocks |-> B, own |-> own]

OwnKinds == {"None", "Owned", "Guaranteed"}

\* a header argument of a loop function: its ownership kind and how it is
\* stepped. "X": from init by one; "Y": from init by two; "Z": from one by
\* one; "S": from init, handed round the loop as it is
ArgKinds == {[own |-> "None", cls |-> "X"], [own |-> "Owned", cls |-> "X"],
             [own |-> "Owned", cls |-> "S"], [own |-> "Guaranteed", cls |-> "X"]}
PlainArgKinds == {[own |-> "None", cls |-> c] : c \in {"X", "Y", "Z"}}

\*   bb1: %1 = init, %2 = one, %3 = two, %4 = loopcond;  br bb2(inits)
\*   bb2(phis): cond_br %4, bb3, bb4
\*   bb3: next_k = struct/builtin (phi_k, delta_k);  br bb2(nexts)
\*        (for "S": next_k = struct (%1, %2), unused, and phi_k goes back)
\*   bb4: use phi_k ...; destroy_value of the owned phis; return
\* and, with `critical`, the three blocks of the pass's doc comment:
\*   bb2(phis): next_k = ...; cond_br %4, bb2(nexts), bb3
LoopFunc(kinds, own, critical) ==
    LET N == Len(kinds)
        phi(k) == 4 + k
        next(k) == 4 + N + k
        use(k) == 4 + 2 * N + k
        owned == SetToSeq({k \in 1..N : own /\ kinds[k].own = "Owned"})
        ko(k) == IF own THEN kinds[k].own ELSE "None"
        init(k) == IF kinds[k].cls = "Z" THEN 2 ELSE 1
        delta(k) == IF kinds[k].cls = "Y" THEN 3 ELSE 2
        V == [i \in 1..(4 + 3 * N + Len(owned)) |->
                IF i <= 3 THEN Inst("literal", i, <<>>, "T", "None")
                ELSE IF i = 4 THEN Inst("literal", 1, <<>>, "Bool", "None")
                ELSE IF i <= 4 + N THEN PhiArg("T", ko(i - 4))
                ELSE IF i <= 4 + 2 * N
                THEN IF kinds[i - 4 - N].cls = "S"
                     THEN Inst("struct", 0, <<1, 2>>, "T", "None")
                     ELSE Inst(IF own THEN "struct" ELSE "builtin", 0,
                               <<phi(i - 4 - N), delta(i - 4 - N)>>, "T",
                               ko(i - 4 - N))
                ELSE IF i <= 4 + 3 * N
                THEN Inst("apply", 0, <<phi(i - 4 - 2 * N)>>, "Void", "None")
                ELSE Inst("destroy_value", 0, <<phi(owned[i - 4 - 3 * N])>>,
                          "Void", "None")]
        phis == [k \in 1..N |-> phi(k)]
        nexts == [k \in 1..N |-> next(k)]
        backs == [k \in 1..N |-> IF kinds[k].cls = "S" THEN phi(k) ELSE next(k)]
        exit == [k \in 1..(N + Len(owned)) |-> 4 + 2 * N + k]
        entry == Block(<<>>, <<1, 2, 3, 4>>, "br", 0, <<2>>,
                       <<[k \in 1..N |-> init(k)]>>)
    IN IF critical
       THEN Func(V, <<entry,
                      Block(phis, nexts, "cond_br", 4, <<2, 3>>, <<backs, <<>>>>),
                      Block(<<>>, exit, "return", 0, <<>>, <<>>)>>, own)
       ELSE Func(V, <<entry,
                      Block(phis, <<>>, "cond_br", 4, <<3, 4>>, <<<<>>, <<>>>>),
                      Block(<<>>, nexts, "br", 0, <<2>>, <<backs>>),
                      Block(<<>>, exit, "return", 0, <<>>, <<>>)>>, own)

SeqsOver(S, lo, hi) == UNION {[1..n -> S] : n \in lo..hi}

LoopFuncs ==
    {LoopFunc(k, TRUE, FALSE) : k \in SeqsOver(ArgKinds, 2, MaxArgs)}
    \cup {LoopFunc(k, FALSE, c) : k \in SeqsOver(PlainArgKinds, 2, 3),
                                 c \in BOOLEAN}

\*   bb1: %k = literal k (k = 1..N);  br bb2(%1, ..., %N), but with %i in
\*        place of %j, and with %1 in place of %2 when dup
\*   bb2(a_1 .. a_N): use a_k ...; return
WideFunc(N, i, j, dup) ==
    LET src(k) == IF k = j THEN i ELSE IF k = 2 /\ dup THEN 1 ELSE k
        V == [v \in 1..(3 * N) |->
                IF v <= N THEN Inst("literal", v, <<>>, "T", "None")
                ELSE IF v <= 2 * N THEN PhiArg("T", "None")
                ELSE Inst("apply", 0, <<v - N>>, "Void", "None")]
    IN Func(V, <<Block(<<>>, [k \in 1..N |-> k], "br", 0, <<2>>,
                       <<[k \in 1..N |-> src(k)]>>),
                 Block([k \in 1..N |-> N + k], [k \in 1..N |-> 2 * N + k],
                       "return", 0, <<>>, <<>>)>>, FALSE)

WideFuncs ==
    {WideFunc(WideArgs, i, j, d) :
        i \in {3, 7}, j \in (WideArgs - 3)..WideArgs, d \in BOOLEAN}

\*   bb1(%1 = init, %2 = one): %3 = two, %4 = loopcond;  br bb2(%1, %1)
\*   bb2(%5, %6): c_1 = builtin(%5, %2), c_i = builtin(c_(i-1), %2), i <= L
\*                d_1 = builtin(%6, %2 or %3), d_i = builtin(d_(i-1), %2)
\*                cond_br %4, bb2(c_L, d_L), bb3
\*   bb3: use %5; use %6; return
ChainFunc(L, same) ==
    LET V == [v \in 1..(8 + 2 * L) |->
                IF v <= 2 THEN FuncArg("T", "None")
                ELSE IF v = 3 THEN Inst("literal", 3, <<>>, "T", "None")
                ELSE IF v = 4 THEN Inst("literal", 1, <<>>, "Bool", "None")
                ELSE IF v <= 6 THEN PhiArg("T", "None")
                ELSE IF v <= 6 + L
                THEN Inst("builtin", 0, <<IF v = 7 THEN 5 ELSE v - 1, 2>>,
                          "T", "None")
                ELSE IF v <= 6 + 2 * L
                THEN Inst("builtin", 0,
                          IF v = 7 + L THEN <<6, IF same THEN 2 ELSE 3>>
                          ELSE <<v - 1, 2>>, "T", "None")
                ELSE Inst("apply", 0, <<v - 2 - 2 * L>>, "Void", "None")]
    IN Func(V, <<Block(<<1, 2>>, <<3, 4>>, "br", 0, <<2>>, <<<<1, 1>>>>),
                 Block(<<5, 6>>, [k \in 1..(2 * L) |-> 6 + k], "cond_br", 4,
                       <<2, 3>>, <<<<6 + L, 6 + 2 * L>>, <<>>>>),
                 Block(<<>>, <<7 + 2 * L, 8 + 2 * L>>, "return", 0, <<>>, <<>>)>>,
            FALSE)

ChainFuncs == {ChainFunc(L, s) : L \in 1..MaxChain, s \in BOOLEAN}

\*   bb1(%1, %2): %3 = op (%1, %2); %4 = op (%1, %2);  br bb2(x, y)
\*   bb2(%5, %6): use %5; use %6; return
\* the same instruction twice, with or without memory behaviour, an
\* allocation or not, and each phi fed by an argument or an instruction
EntryFunc(op, x, y) ==
    LET V == [v \in 1..8 |->
                IF v <= 2 THEN FuncArg("T", "None")
                ELSE IF v <= 4 THEN Inst(op, 0, <<1, 2>>, "T", "None")
                ELSE IF v <= 6 THEN PhiArg("T", "None")
                ELSE Inst("apply", 0, <<v - 2>>, "Void", "None")]
    IN Func(V, <<Block(<<1, 2>>, <<3, 4>>, "br", 0, <<2>>, <<<<x, y>>>>),
                 Block(<<5, 6>>, <<7, 8>>, "return", 0, <<>>, <<>>)>>, FALSE)

EntryFuncs ==
    {EntryFunc(op, x, y) :
        op \in {"struct", "apply", "alloc_ref", "alloc_stack"},
        x \in {1, 3}, y \in 1..4}

Functions == LoopFuncs \cup WideFuncs \cup ChainFuncs \cup EntryFuncs

----------------------------------------------------------------------------
(* RedundantPhiEliminationPass *)

NoCall == [a1 |-> 0, a2 |-> 0, res |-> FALSE, pops |-> 0, handled |-> 0]
NoRun == [ran |-> FALSE, changed |-> FALSE, invalidated |-> FALSE, merges |-> 0]
NoOpt == [arg |-> 0, res |-> FALSE, collected |-> <<>>, field |-> 0,
          newType |-> "", vals |-> <<>>, blocks |-> <<>>]

Init ==
    /\ \E f \in Functions :
          /\ vals = f.vals
          /\ blocks = f.blocks
          /\ hasOwn = f.own
    /\ shouldOpt \in BOOLEAN
    /\ vals0 = vals
    /\ blocks0 = blocks
    /\ pc = "start"
    /\ runNo = 1
    /\ blk = 0
    /\ arg1Idx = 0
    /\ arg2Idx = 0
    /\ numComb = 0
    /\ changed = FALSE
    /\ runChanged = FALSE
    /\ invalidated = FALSE
    /\ eqCalls = 0
    /\ tested = {}
    /\ lastEq = NoCall
    /\ log = [r \in 1..2 |-> NoRun]
    /\ argIdx = 0
    /\ lastOpt = NoOpt

IRUnchanged == UNCHANGED <<vals, blocks, hasOwn, shouldOpt, vals0, blocks0>>

\* the other pass is not running
ExpansionIdle == UNCHANGED <<argIdx, lastOpt>>

\* the locals of optimizeArgs on entry
EnterOptimizeArgs(b) ==
    /\ blk' = b
    /\ arg1Idx' = 0
    /\ arg2Idx' = 1
    /\ numComb' = 0
    /\ changed' = FALSE
    /\ eqCalls' = 0
    /\ tested' = {}

\* run(), up to the first optimizeArgs call
RunStart ==
    /\ pc = "start"
    /\ IF ~shouldOpt
       THEN /\ pc' = "ran"
            /\ log' = [log EXCEPT ![runNo].ran = TRUE]
            /\ UNCHANGED <<blk, arg1Idx, arg2Idx, numComb, changed, eqCalls, tested>>
       ELSE /\ pc' = "args"
            /\ EnterOptimizeArgs(1)
            /\ UNCHANGED log
    /\ runChanged' = FALSE
    /\ invalidated' = FALSE
    /\ lastEq' = NoCall
    /\ UNCHANGED runNo
    /\ IRUnchanged
    /\ ExpansionIdle

\* `++numArgumentCombinations > maxArgumentCombinations`, n the count so far
CapExceededNever(n) == FALSE
CapExceeded(n) == n + 1 > maxArgumentCombinations

\* where the two for loops of optimizeArgs stand: the indices of the next
\* pair to examine, or none when the outer loop is over
RECURSIVE LoopPosition(_, _, _)
LoopPosition(i1, i2, n) ==
    IF i1 >= n THEN [more |-> FALSE, i1 |-> i1, i2 |-> i2]
    ELSE IF i2 < n THEN [more |-> TRUE, i1 |-> i1, i2 |-> i2]
    ELSE LoopPosition(i1 + 1, i1 + 2, n)

\* one iteration of the inner loop that does not hit the cap: the pair is
\* skipped if one of the two is no phi, and compared otherwise
ExaminePair ==
    /\ pc = "args"
    /\ LET pos == LoopPosition(arg1Idx, arg2Idx, Len(blocks[blk].args))
       IN /\ pos.more
          /\ ~CapExceeded(numComb)
          /\ numComb' = numComb + 1
          /\ arg1Idx' = pos.i1
          /\ LET arg1 == blocks[blk].args[pos.i1 + 1]
                 arg2 == blocks[blk].args[pos.i2 + 1]
             IN IF ~isPhi(vals, blocks, arg1) \/ ~isPhi(vals, blocks, arg2)
                THEN /\ arg2Idx' = pos.i2
                     /\ pc' = "args"
                     /\ UNCHANGED <<eqCalls, tested, lastEq>>
                ELSE LET r == valuesAreEqual(vals, blocks, hasOwn, arg1, arg2)
                     IN /\ eqCalls' = eqCalls + 1
                        /\ tested' = tested \cup {<<arg1, arg2>>}
                        /\ lastEq' = [a1 |-> arg1, a2 |-> arg2, res |-> r.res,
                                      pops |-> r.pops, handled |-> r.handled]
                        /\ IF r.res
                           THEN arg2Idx' = pos.i2 /\ pc' = "merge"
                           ELSE arg2Idx' = pos.i2 + 1 /\ pc' = "args"
    /\ UNCHANGED <<runNo, blk, changed, runChanged, invalidated, log>>
    /\ IRUnchanged
    /\ ExpansionIdle

\* the body of `if (valuesAreEqual(arg1, arg2))`
MergePair ==
    /\ pc = "merge"
    /\ LET m == MergeArgs(vals, blocks, hasOwn, blk, arg1Idx + 1, arg2Idx + 1)
       IN vals' = m.vals /\ blocks' = m.blocks
    /\ changed' = TRUE
    /\ pc' = "args"
    /\ log' = [log EXCEPT ![runNo].merges = @ + 1]
    /\ UNCHANGED <<hasOwn, shouldOpt, vals0, blocks0, runNo, blk, arg1Idx,
                   arg2Idx, numComb, runChanged, invalidated, eqCalls, tested, lastEq>>
    /\ ExpansionIdle

\* a build with assertions stops at an assert of the merge that fails; a
\* build without them (NDEBUG) goes on with MergePair
AssertionFailure ==
    /\ pc = "merge"
    /\ ~AssertsHold(vals, blocks, hasOwn, blocks[blk].args[arg1Idx + 1],
                    blocks[blk].args[arg2Idx + 1])
    /\ pc' = "abort"
    /\ UNCHANGED <<runNo, blk, arg1Idx, arg2Idx, numComb, changed, runChanged,
                   invalidated, eqCalls, tested, lastEq, log>>
    /\ IRUnchanged
    /\ ExpansionIdle

\* optimizeArgs returns `changed`: the loops are over, or the cap is hit;
\* run() goes on with the next block
OptimizeArgsReturn ==
    /\ pc = "args"
    /\ LET pos == LoopPosition(arg1Idx, arg2Idx, Len(blocks[blk].args))
       IN /\ ~pos.more \/ CapExceeded(numComb)
          /\ runChanged' = (runChanged \/ changed)
          /\ IF blk < Len(blocks)
             THEN /\ pc' = "args"
                  /\ EnterOptimizeArgs(blk + 1)
             ELSE /\ pc' = "finish"
                  /\ numComb' = IF pos.more THEN numComb + 1 ELSE numComb
                  /\ UNCHANGED <<blk, arg1Idx, arg2Idx, changed, eqCalls, tested>>
    /\ UNCHANGED <<runNo, invalidated, lastEq, log>>
    /\ IRUnchanged
    /\ ExpansionIdle

\* the end of run(): invalidateAnalysis if anything changed
RunFinish ==
    /\ pc = "finish"
    /\ invalidated' = runChanged
    /\ log' = [log EXCEPT ![runNo].ran = TRUE, ![runNo].changed = runChanged,
                          ![runNo].invalidated = runChanged]
    /\ pc' = "ran"
    /\ UNCHANGED <<runNo, blk, arg1Idx, arg2Idx, numComb, changed, runChanged,
                   eqCalls, tested, lastEq>>
    /\ IRUnchanged
    /\ ExpansionIdle

\* the pass manager runs the pass on the function once more
RunAgain ==
    /\ pc = "ran"
    /\ runNo = 1
    /\ runNo' = 2
    /\ pc' = "start"
    /\ UNCHANGED <<blk, arg1Idx, arg2Idx, numComb, changed, runChanged,
                   invalidated, eqCalls, tested, lastEq, log>>
    /\ IRUnchanged
    /\ ExpansionIdle

Next == RunStart \/ ExaminePair \/ MergePair \/ AssertionFailure
        \/ OptimizeArgsReturn \/ RunFinish \/ RunAgain

Spec == Init /\ [][Next]_vars

----------------------------------------------------------------------------
(* Struct types *)

\* deepest nesting of the struct type of a phi argument
MaxDepth == 2

\* the types by nesting depth: "T" is no struct, and the struct of depth d
\* has the fields #1, of the struct type of depth d - 1, and #2, of type "T"
TypeNames == <<"T", "S1", "S2", "S3", "S4">>

TypeOfDepth(d) == TypeNames[d + 1]

Depth(ty) == IF ty \in Range(TypeNames) THEN IndexOf(TypeNames, ty) - 1 ELSE 0

\* the VarDecl of field k of the struct of depth d (0 is the null VarDecl)
Field(d, k) == 2 * (d - 1) + k

\* the struct type a field is declared in, and the type of the field
FieldOwner(f) == TypeOfDepth((f + 1) \div 2)
FieldType(f) == IF f % 2 = 1 THEN TypeOfDepth((f + 1) \div 2 - 1) ELSE "T"

----------------------------------------------------------------------------
(* PhiExpansionPass::optimizeArg, first step: collect the phi arguments *)

\* BranchInst / CondBranchInst::getArgForOperand over the branch uses of arg
DestArgs(B, arg) ==
    {B[B[u[1]].dests[u[2]]].args[u[3]] : u \in BranchUses(B, arg)}

\* a use that is no debug_value, no struct_extract and no branch argument:
\* another instruction, or the condition of a cond_br
UnexpectedUseNever(V, B, arg) == FALSE
UnexpectedUse(V, B, arg) ==
    \/ \E i \in InstUsers(V, B, arg) :
          V[i].op \notin {"debug_value", "struct_extract"}
    \/ CondUses(B, arg) # {}

StructExtractUsers(V, B, arg) ==
    {i \in InstUsers(V, B, arg) : V[i].op = "struct_extract"}

DebugValueUsers(V, B, arg) ==
    {i \in InstUsers(V, B, arg) : V[i].op = "debug_value"}

\* `field && extr->getField() != field` for one of the extractions of arg
MixedFieldsNever(V, B, arg, field) == FALSE
MixedFields(V, B, arg, field) ==
    LET fs == {V[i].attr : i \in StructExtractUsers(V, B, arg)}
    IN Cardinality(fs) > 1 \/ (field # 0 /\ fs # {} /\ fs # {field})

\* the loop over collectedPhiArgs; the uses of an argument are visited
\* instructions first, and the destination arguments are appended in
\* ascending order
RECURSIVE CollectPhiArgs(_, _, _, _, _, _)
CollectPhiArgs(V, B, collectedPhiArgs, workIdx, field, newType) ==
    IF workIdx >= Len(collectedPhiArgs)
    THEN [ok |-> TRUE, collected |-> collectedPhiArgs, field |-> field,
          newType |-> newType]
    ELSE LET arg == collectedPhiArgs[workIdx + 1]
             extrs == StructExtractUsers(V, B, arg)
         IN IF UnexpectedUse(V, B, arg) \/ MixedFields(V, B, arg, field)
            THEN [ok |-> FALSE, collected |-> collectedPhiArgs,
                  field |-> field, newType |-> newType]
            ELSE LET extr == CHOOSE i \in extrs : TRUE
                     found == extrs # {}
                     new == SetToSeq(DestArgs(B, arg) \ Range(collectedPhiArgs))
                 IN CollectPhiArgs(V, B, collectedPhiArgs \o new, workIdx + 1,
                                   IF found THEN V[extr].attr ELSE field,
                                   IF found THEN V[extr].ty ELSE newType)

\* `if (!field) return false`
NoFieldNever(field) == FALSE
NoField(field) == field = 0

----------------------------------------------------------------------------
(* PhiExpansionPass::optimizeArg, second step: the transformation *)

\* SILBasicBlock::replacePhiArgumentAndReplaceAllUses: the new argument
\* takes the place of the old one in the block and in every use, and the
\* old one is destroyed; the new argument is given the id of the old one
replacePhiArgumentAndReplaceAllUses(V, arg, newType, own) ==
    [V EXCEPT ![arg] = PhiArg(newType, own)]

\* SILInstruction::eraseFromParent for a set of instructions
eraseFromParent(B, insts) ==
    [b \in DOMAIN B |->
        [B[b] EXCEPT !.body = SelectSeq(@, LAMBDA i : i \notin insts)]]

\* `for (DebugValueInst *dvi : debugValueUsers) dvi->eraseFromParent()`
KeepDebugValueUsers(V, B, newArg) == B
EraseDebugValueUsers(V, B, newArg) ==
    eraseFromParent(B, DebugValueUsers(V, B, newArg))

\* `sei->replaceAllUsesWith(sei->getOperand()); sei->eraseFromParent()` for
\* every struct_extract user of newArg
ForwardStructExtractUsers(V, B, newArg) ==
    LET seis == StructExtractUsers(V, B, newArg)
        fwd(v) == IF v \in seis THEN V[v].ops[1] ELSE v
        V2 == [i \in DOMAIN V |->
                  [V[i] EXCEPT !.ops = [k \in DOMAIN V[i].ops |->
                                           fwd(V[i].ops[k])]]]
        B2 == [b \in DOMAIN B |->
                  [B[b] EXCEPT
                      !.cond = fwd(B[b].cond),
                      !.targs = [j \in DOMAIN B[b].targs |->
                                    [k \in DOMAIN B[b].targs[j] |->
                                        fwd(B[b].targs[j][k])]]]]
    IN [vals |-> V2, blocks |-> eraseFromParent(B2, seis)]

\* `op->get()->getType() == newType`: did we already handle the operand?
AlreadyHandledNever(V, val, newType) == FALSE
AlreadyHandled(V, val, newType) == V[val].ty = newType

\* no struct_extract is put in front of the branches
MoveStructExtractNone(V, B, newArg, field, newType, preds) ==
    [vals |-> V, blocks |-> B]

\* "move" the struct_extract to the predecessors: a struct_extract of the
\* incoming value in front of the branch, for every incoming operand
RECURSIVE MoveStructExtract(_, _, _, _, _, _)
MoveStructExtract(V, B, newArg, field, newType, preds) ==
    IF preds = <<>> THEN [vals |-> V, blocks |-> B]
    ELSE LET p == Head(preds)
             j == DestSlot(B, p, getParent(B, newArg))
             k == getIndex(B, newArg)
             val == B[p].targs[j][k]
             strExtract == Len(V) + 1
         IN IF AlreadyHandled(V, val, newType)
            THEN MoveStructExtract(V, B, newArg, field, newType, Tail(preds))
            ELSE MoveStructExtract(
                     Append(V, Inst("struct_extract", field, <<val>>, newType,
                                    "None")),
                     [B EXCEPT ![p].body = Append(@, strExtract),
                               ![p].targs[j][k] = strExtract],
                     newArg, field, newType, Tail(preds))

\* one iteration of `for (const SILPhiArgument *arg : collectedPhiArgs)`
TransformArg(V, B, own, arg, field, newType) ==
    LET V1 == replacePhiArgumentAndReplaceAllUses(
                  V, arg, newType, getOwnershipKind(V, own, arg))
        B1 == EraseDebugValueUsers(V1, B, arg)
        f == ForwardStructExtractUsers(V1, B1, arg)
    IN MoveStructExtract(f.vals, f.blocks, arg, field, newType,
                         getPredecessorBlocks(f.blocks, getParent(f.blocks, arg)))

\* `for (const SILPhiArgument *arg : collectedPhiArgs)`
TransformArgsFirstOnly(V, B, own, args, field, newType) ==
    TransformArg(V, B, own, Head(args), field, newType)
RECURSIVE TransformArgs(_, _, _, _, _, _)
TransformArgs(V, B, own, args, field, newType) ==
    IF args = <<>> THEN [vals |-> V, blocks |-> B]
    ELSE LET t == TransformArg(V, B, own, Head(args), field, newType)
         IN TransformArgs(t.vals, t.blocks, own, Tail(args), field, newType)

\* optimizeArg: its result, and the function it leaves
optimizeArg(V, B, own, initialArg) ==
    LET c == CollectPhiArgs(V, B, <<initialArg>>, 0, 0, "")
    IN IF ~c.ok \/ NoField(c.field)
       THEN [res |-> FALSE, vals |-> V, blocks |-> B, collected |-> c.collected,
             field |-> c.field, newType |-> c.newType]
       ELSE LET t == TransformArgs(V, B, own, c.collected, c.field, c.newType)
            IN [res |-> TRUE, vals |-> t.vals, blocks |-> t.blocks,
                collected |-> c.collected, field |-> c.field,
                newType |-> c.newType]

----------------------------------------------------------------------------
(* The functions PhiExpansionPass is run on *)

\*   %1 : the struct (a function argument), %2 : the loop condition,
\*   %3 = p, %4 = q : struct phis, %16 = c : a Bool phi, %17 : a struct
\*   users of p:  %5 = struct_extract p, #1;  %6 = use %5
\*                %7 = struct_extract p, #2;  %8 = use %7
\*                %9 = debug_value p;         %10 = use p
\*                %11 = struct_extract %5, #1;  %12 = use %11
\*                %13 = debug_value %5
\*   users of q:  %14 = struct_extract q, #qfield;  %15 = use %14
\* shapes:
\*   straight  bb1: br bb2(%1)        bb2(p): users; return
\*   self      bb1: br bb2(%1)        bb2(p): users; cond_br c, bb2(p), bb3
\*   via       bb1: br bb2(%1)        bb2(p): users; cond_br c, bb3(p), bb4
\*                                    bb3(q): users; br bb2(q)
\*   via2      bb1: br bb2(%1)        bb2(q): users; br bb3(q)
\*                                    bb3(p): users; cond_br c, bb2(p), bb4
\*   swap      bb1: br bb2(%1, %17)   bb2(p, q): users; cond_br c, bb3, bb4
\*                                    bb3: br bb2(q, p)
ExpFunc(d, shape, uses, nest, qfield, phicond) ==
    LET S == TypeOfDepth(d)
        use(v) == Inst("apply", 0, <<v>>, "Void", "None")
        V == << FuncArg(S, "None"),
                Inst("literal", 1, <<>>, "Bool", "None"),
                PhiArg(S, "None"),
                PhiArg(S, "None"),
                Inst("struct_extract", Field(d, 1), <<3>>, FieldType(Field(d, 1)),
                     "None"),
                use(5),
                Inst("struct_extract", Field(d, 2), <<3>>, "T", "None"),
                use(7),
                Inst("debug_value", 0, <<3>>, "Void", "None"),
                use(3),
                IF d >= 2
                THEN Inst("struct_extract", Field(d - 1, 1), <<5>>,
                          FieldType(Field(d - 1, 1)), "None")
                ELSE use(5),
                use(11),
                Inst("debug_value", 0, <<5>>, "Void", "None"),
                IF qfield = 0 THEN use(4)
                ELSE Inst("struct_extract", Field(d, qfield), <<4>>,
                          FieldType(Field(d, qfield)), "None"),
                use(14),
                PhiArg("Bool", "None"),
                Inst("literal", 2, <<>>, S, "None") >>
        on == (IF "E1" \in uses THEN {5, 6} ELSE {})
              \cup (IF "E2" \in uses THEN {7, 8} ELSE {})
              \cup (IF "D" \in uses THEN {9} ELSE {})
              \cup (IF "A" \in uses THEN {10} ELSE {})
              \cup (IF "N" \in nest THEN {11, 12} ELSE {})
              \cup (IF "DF" \in nest THEN {13} ELSE {})
        pUsers == SelectSeq(<<5, 6, 7, 8, 9, 10, 11, 12, 13>>,
                            LAMBDA i : i \in on)
        qUsers == IF qfield = 0 THEN <<>> ELSE <<14, 15>>
        c == IF phicond THEN 16 ELSE 2
        cphi == IF phicond THEN <<16>> ELSE <<>>
        cin == IF phicond THEN <<2>> ELSE <<>>
        ret == Block(<<>>, <<>>, "return", 0, <<>>, <<>>)
        B == CASE shape = "straight" ->
                    << Block(<<1>>, <<2>>, "br", 0, <<2>>, << <<1>> >>),
                       Block(<<3>>, pUsers, "return", 0, <<>>, <<>>) >>
               [] shape = "self" ->
                    << Block(<<1>>, <<2>>, "br", 0, <<2>>, << <<1>> \o cin >>),
                       Block(<<3>> \o cphi, pUsers, "cond_br", c, <<2, 3>>,
                             << <<3>> \o cphi, <<>> >>),
                       ret >>
               [] shape = "via" ->
                    << Block(<<1>>, <<2>>, "br", 0, <<2>>, << <<1>> \o cin >>),
                       Block(<<3>> \o cphi, pUsers, "cond_br", c, <<3, 4>>,
                             << <<3>>, <<>> >>),
                       Block(<<4>>, qUsers, "br", 0, <<2>>, << <<4>> \o cphi >>),
                       ret >>
               [] shape = "via2" ->
                    << Block(<<1>>, <<2>>, "br", 0, <<2>>, << <<1>> >>),
                       Block(<<4>>, qUsers, "br", 0, <<3>>, << <<4>> \o cin >>),
                       Block(<<3>> \o cphi, pUsers, "cond_br", c, <<2, 4>>,
                             << <<3>>, <<>> >>),
                       ret >>
               [] shape = "swap" ->
                    << Block(<<1>>, <<2, 17>>, "br", 0, <<2>>,
                             << <<1, 17>> \o cin >>),
                       Block(<<3, 4>> \o cphi, pUsers \o qUsers, "cond_br", c,
                             <<3, 4>>, << <<>>, <<>> >>),
                       Block(<<>>, <<>>, "br", 0, <<2>>, << <<4, 3>> \o cphi >>),
                       ret >>
    IN Func(V, B, FALSE)

\* the functions that are well formed: the nested users need the first
\* extraction, and a struct to extract from; q and c need a loop
WellFormed(d, shape, uses, nest, qfield, phicond) ==
    /\ nest # {} => "E1" \in uses
    /\ "N" \in nest => d >= 2
    /\ shape \in {"straight", "self"} => qfield = 0
    /\ shape = "straight" => ~phicond

PlainExpFunctions ==
    {ExpFunc(x[1], x[2], x[3], x[4], x[5], x[6]) :
        x \in {y \in (1..MaxDepth)
                     \X {"straight", "self", "via", "via2", "swap"}
                     \X (SUBSET {"E1", "E2", "D", "A"})
                     \X (SUBSET {"N", "DF"})
                     \X (0..2)
                     \X BOOLEAN :
                 WellFormed(y[1], y[2], y[3], y[4], y[5], y[6])}}

\* the function with ownership: the structs are @guaranteed. A cond_br of a
\* function with ownership has no arguments
Guaranteed(f) ==
    Func([i \in DOMAIN f.vals |->
             IF IsArgument(f.vals, i) /\ f.vals[i].ty # "Bool"
             THEN [f.vals[i] EXCEPT !.own = "Guaranteed"]
             ELSE f.vals[i]],
         f.blocks, TRUE)

NoCondBrArgs(f) ==
    \A b \in DOMAIN f.blocks : \A j \in DOMAIN f.blocks[b].targs :
        f.blocks[b].tkind = "cond_br" => f.blocks[b].targs[j] = <<>>

ExpFunctions ==
    PlainExpFunctions
    \cup {Guaranteed(f) : f \in {g \in PlainExpFunctions : NoCondBrArgs(g)}}

----------------------------------------------------------------------------
(* PhiExpansionPass *)

InitExp ==
    /\ \E f \in ExpFunctions :
          /\ vals = f.vals
          /\ blocks = f.blocks
          /\ hasOwn = f.own
    /\ shouldOpt \in BOOLEAN
    /\ vals0 = vals
    /\ blocks0 = blocks
    /\ pc = "start"
    /\ runNo = 1
    /\ blk = 0
    /\ arg1Idx = 0
    /\ arg2Idx = 0
    /\ numComb = 0
    /\ changed = FALSE
    /\ runChanged = FALSE
    /\ invalidated = FALSE
    /\ eqCalls = 0
    /\ tested = {}
    /\ lastEq = NoCall
    /\ log = [r \in 1..2 |-> NoRun]
    /\ argIdx = 0
    /\ lastOpt = NoOpt

\* the other pass is not running
EliminationIdle ==
    UNCHANGED <<hasOwn, shouldOpt, vals0, blocks0, runNo, arg1Idx, arg2Idx,
                numComb, runChanged, eqCalls, tested, lastEq, log>>

\* run(), up to the loop over the blocks
ExpRunStart ==
    /\ pc = "start"
    /\ changed' = FALSE
    /\ IF ~shouldOpt
       THEN pc' = "ran" /\ UNCHANGED <<blk, argIdx>>
       ELSE pc' = "phis" /\ blk' = 1 /\ argIdx' = 0
    /\ UNCHANGED <<vals, blocks, invalidated, lastOpt>>
    /\ EliminationIdle

\* `if (!argAndIdx.value()->isPhi()) continue`
SkipArgument ==
    /\ pc = "phis"
    /\ argIdx < Len(blocks[blk].args)
    /\ ~isPhi(vals, blocks, blocks[blk].args[argIdx + 1])
    /\ argIdx' = argIdx + 1
    /\ UNCHANGED <<vals, blocks, pc, blk, changed, invalidated, lastOpt>>
    /\ EliminationIdle

\* the loops of run() stand at a phi argument
AtPhiArgument ==
    /\ pc = "phis"
    /\ argIdx < Len(blocks[blk].args)
    /\ isPhi(vals, blocks, blocks[blk].args[argIdx + 1])

\* one test of `while (optimizeArg(block.getArgument(idx)))`, and the body
OptimizeArgCall ==
    /\ AtPhiArgument
    /\ LET initialArg == blocks[blk].args[argIdx + 1]
           r == optimizeArg(vals, blocks, hasOwn, initialArg)
       IN /\ vals' = r.vals
          /\ blocks' = r.blocks
          /\ lastOpt' = [arg |-> initialArg, res |-> r.res,
                         collected |-> r.collected, field |-> r.field,
                         newType |-> r.newType, vals |-> vals,
                         blocks |-> blocks]
          /\ changed' = (changed \/ r.res)
          /\ argIdx' = IF r.res THEN argIdx ELSE argIdx + 1
    /\ UNCHANGED <<pc, blk, invalidated>>
    /\ EliminationIdle

\* the arguments of the block are done: on to the next block
NextBlock ==
    /\ pc = "phis"
    /\ argIdx >= Len(blocks[blk].args)
    /\ blk < Len(blocks)
    /\ blk' = blk + 1
    /\ argIdx' = 0
    /\ UNCHANGED <<vals, blocks, pc, changed, invalidated, lastOpt>>
    /\ EliminationIdle

\* the end of run(), with invalidateAnalysis called whatever happened
ExpRunFinishAlways ==
    /\ pc = "phis"
    /\ argIdx >= Len(blocks[blk].args)
    /\ blk = Len(blocks)
    /\ invalidated' = TRUE
    /\ pc' = "ran"
    /\ UNCHANGED <<vals, blocks, blk, argIdx, changed, lastOpt>>
    /\ EliminationIdle

\* the end of run(): invalidateAnalysis if anything changed
ExpRunFinish ==
    /\ pc = "phis"
    /\ argIdx >= Len(blocks[blk].args)
    /\ blk = Len(blocks)
    /\ invalidated' = changed
    /\ pc' = "ran"
    /\ UNCHANGED <<vals, blocks, blk, argIdx, changed, lastOpt>>
    /\ EliminationIdle

NextExp == ExpRunStart \/ SkipArgument \/ OptimizeArgCall \/ NextBlock
           \/ ExpRunFinish

SpecExp == InitExp /\ [][NextExp]_vars

----------------------------------------------------------------------------
(* Either pass, run on its functions *)

\* the function is one of ExpFunctions: its first value is a struct
OnStructs == Depth(vals0[1].ty) >= 1

InitBoth == Init \/ InitExp

NextBoth == (~OnStructs /\ Next) \/ (OnStructs /\ NextExp)

SpecBoth == InitBoth /\ [][NextBoth]_vars

\* run() is sequential code that is run to its end: each of its steps is
\* taken once control stands at it. For OptimizeArgCall, which changes the
\* state whenever AtPhiArgument holds, weak fairness is written with
\* AtPhiArgument in the place of ENABLED <<OptimizeArgCall>>_vars
FairSpecExp ==
    /\ SpecExp
    /\ WF_vars(ExpRunStart)
    /\ WF_vars(SkipArgument)
    /\ WF_vars(NextBlock)
    /\ WF_vars(ExpRunFinish)
    /\ ([]<>(~AtPhiArgument) \/ []<><<OptimizeArgCall>>_vars)

----------------------------------------------------------------------------
(* Concrete executions of a function: the values every SSA value takes and  *)
(* the owned values alive, along every path of at most MaxSteps blocks      *)

Undef == -1
MaxSteps == 2 * MaxIter + 3

\* an operand use that ends the lifetime of an owned value
Consumes(V, own, i, o) ==
    /\ V[i].op \in {"struct", "destroy_value"}
    /\ getOwnershipKind(V, own, o) = "Owned"

\* field f of the struct value x: another value for every struct and field
Extract(x, f) == IF x = Undef THEN Undef ELSE 10 * x + f

\* the result of instruction i in environment env
Compute(V, env, i) ==
    LET o == V[i].ops
    IN CASE V[i].op = "literal" -> V[i].attr
         [] V[i].op \in {"builtin", "struct"} -> (env[o[1]] + env[o[2]]) % Modulus
         [] V[i].op = "copy_value" -> env[o[1]]
         [] V[i].op = "struct_extract" -> Extract(env[o[1]], V[i].attr)
         [] V[i].op \in {"alloc_ref", "alloc_stack", "apply"} -> 100 + i
         [] OTHER -> 0

\* st after instruction i
ExecInst(V, own, st, i) ==
    LET used == {o \in Range(V[i].ops) : Consumes(V, own, i, o)}
        makes == getOwnershipKind(V, own, i) = "Owned"
        live1 == st.live \ used
    IN [env |-> [st.env EXCEPT ![i] = Compute(V, st.env, i)],
        obs |-> IF V[i].op = "apply"
                THEN Append(st.obs, <<i, st.env[V[i].ops[1]]>>)
                ELSE st.obs,
        live |-> IF makes THEN live1 \cup {i} ELSE live1,
        err |-> st.err \/ ~(used \subseteq st.live) \/ (makes /\ i \in live1),
        done |-> FALSE]

RECURSIVE ExecBody(_, _, _, _)
ExecBody(V, own, st, body) ==
    IF body = <<>> THEN st
    ELSE ExecBody(V, own, ExecInst(V, own, st, Head(body)), Tail(body))

\* st after the terminator of b has branched through its slot j
Transfer(V, B, own, st, b, j) ==
    LET dest == B[b].dests[j]
        ops == B[b].targs[j]
        used == {o \in Range(ops) : getOwnershipKind(V, own, o) = "Owned"}
        made == {a \in Range(B[dest].args) : getOwnershipKind(V, own, a) = "Owned"}
        live1 == st.live \ used
    IN [env |-> [v \in DOMAIN st.env |->
                    IF v \in Range(B[dest].args)
                    THEN st.env[ops[IndexOf(B[dest].args, v)]]
                    ELSE st.env[v]],
        obs |-> Append(st.obs, <<0, dest>>),
        live |-> live1 \cup made,
        err |-> st.err \/ ~(used \subseteq st.live) \/ (made \cap live1 # {})
                \/ Len(ops) # Len(B[dest].args),
        done |-> FALSE]

\* the states at the end of every block of every path from block b
RECURSIVE Exec(_, _, _, _, _, _)
Exec(V, B, own, b, st, fuel) ==
    LET s1 == ExecBody(V, own, st, B[b].body)
    IN IF B[b].tkind = "return" THEN {[s1 EXCEPT !.done = TRUE]}
       ELSE {s1} \cup
            (IF fuel = 0 THEN {}
             ELSE UNION {Exec(V, B, own, B[b].dests[j],
                              Transfer(V, B, own, s1, b, j), fuel - 1) :
                            j \in DOMAIN B[b].dests})

Executions(V, B, own) ==
    Exec(V, B, own, 1,
         [env |-> [v \in DOMAIN V |->
                      IF V[v].kind = "SILFunctionArgument" THEN v ELSE Undef],
          obs |-> <<>>, live |-> {}, err |-> FALSE, done |-> FALSE],
         MaxSteps)

\* what the function lets its environment see: the operands of its applies,
\* in order, along every path
Observable(V, B, own) == {s.obs : s \in Executions(V, B, own)}

\* v1 and v2 hold the same value wherever both are defined
SameValueEverywhere(V, B, own, v1, v2) ==
    \A s \in Executions(V, B, own) :
        (s.env[v1] # Undef /\ s.env[v2] # Undef) => s.env[v1] = s.env[v2]

\* every owned value is consumed exactly once on every path
OwnershipLinear(V, B, own) ==
    \A s \in Executions(V, B, own) : ~s.err /\ (s.done => s.live = {})

----------------------------------------------------------------------------
(* Claims *)

\* C1: whenever valuesAreEqual returns true for (v1, v2), v1 and v2 hold the
\* same value at every point of every path, cycles included, and replacing
\* the uses of one by the other changes nothing the function lets be seen
C1_EqualitySound ==
    /\ pc = "merge" =>
          SameValueEverywhere(vals, blocks, hasOwn, lastEq.a1, lastEq.a2)
    /\ pc = "ran" =>
          Observable(vals, blocks, hasOwn) = Observable(vals0, blocks0, hasOwn)

\* a pair of phis stepped round the loop has been found equal and merged
C1_Witness ==
    /\ pc = "ran"
    /\ log[1].merges > 0
    /\ Len(blocks[2].args) < Len(blocks0[2].args)
    /\ blocks0[2].tkind = "cond_br"
    /\ \E s \in Executions(vals, blocks, hasOwn) : Len(s.obs) > MaxIter + 2

\* C2: in a function with ownership whose owned values are each consumed
\* exactly once on every path, they still are after every merge of two equal
\* phi arguments: nothing is consumed twice, nothing is left unconsumed
C2_OwnershipPreserved ==
    (/\ hasOwn
     /\ pc \in {"args", "ran"}
     /\ log[1].merges > 0
     /\ OwnershipLinear(vals0, blocks0, hasOwn))
    => OwnershipLinear(vals, blocks, hasOwn)

\* two owned phis have been merged: a copy_value stands in for the second,
\* and a destroy_value compensates its erased incoming operand
C2_Witness ==
    /\ hasOwn
    /\ pc = "ran"
    /\ OwnershipLinear(vals0, blocks0, hasOwn)
    /\ \E i \in DOMAIN vals : i \notin DOMAIN vals0 /\ vals[i].op = "copy_value"
    /\ \E i \in DOMAIN vals : i \notin DOMAIN vals0 /\ vals[i].op = "destroy_value"

\* the functions the pass is given are well formed
InputOwnershipLinear == OwnershipLinear(vals0, blocks0, hasOwn)

\* C3: a second run of the pass, right after a first one, erases no
\* argument, redirects no use and reports no change
C3_SecondRunChangesNothing ==
    runNo = 2 => (/\ log[2].merges = 0
                  /\ ~log[2].changed
                  /\ ~log[2].invalidated)

\* everything that uses v: its instructions, and the branches (block and
\* successor slot) that pass it on
UsesOf(V, B, v) ==
    InstUsers(V, B, v) \cup {<<u[1], u[2]>> : u \in BranchUses(B, v)}
    \cup {<<b, 0>> : b \in CondUses(B, v)}

\* a is an argument of the function, in place, used as in the beginning
Untouched(a) ==
    /\ getParent(blocks, a) = getParent(blocks0, a)
    /\ UsesOf(vals, blocks, a) = UsesOf(vals0, blocks0, a)

\* two arguments that differ in nothing but, maybe, their ownership kind
StructurallyIdentical(V, B, a, b) == valuesAreEqual(V, B, FALSE, a, b).res

AllArgs(B) == UNION {Range(B[b].args) : b \in DOMAIN B}

IsGuaranteed(v) == getOwnershipKind(vals0, hasOwn, v) = "Guaranteed"

\* C4, as claimed: of two structurally identical phi arguments of which one
\* is Guaranteed, both stay in place with all their uses
C4_BothUntouched ==
    \A a \in AllArgs(blocks0), b \in AllArgs(blocks0) :
        (/\ a # b
         /\ isPhi(vals0, blocks0, a) /\ isPhi(vals0, blocks0, b)
         /\ IsGuaranteed(a) \/ IsGuaranteed(b)
         /\ StructurallyIdentical(vals0, blocks0, a, b))
        => Untouched(a) /\ Untouched(b)

\* C4, amended: valuesAreEqual returns false for every pair with a
\* Guaranteed phi, and every Guaranteed phi stays in place with all its uses
C4_GuaranteedUntouched ==
    /\ (lastEq.a1 # 0 /\ (IsGuaranteed(lastEq.a1) \/ IsGuaranteed(lastEq.a2)))
          => ~lastEq.res
    /\ \A g \in AllArgs(blocks0) : IsGuaranteed(g) => Untouched(g)

\* two structurally identical Guaranteed phis have been compared and left
C4_Witness ==
    /\ pc = "args"
    /\ \E g \in AllArgs(blocks), h \in AllArgs(blocks) :
          /\ g # h
          /\ IsGuaranteed(g) /\ IsGuaranteed(h)
          /\ StructurallyIdentical(vals, blocks, g, h)
          /\ lastEq = [a1 |-> g, a2 |-> h, res |-> FALSE, pops |-> 1,
                       handled |-> 1]

\* a and b are phis of one header that get the same value from outside the
\* loop and, on the back edge, two distinct instructions without side
\* effects, of the same kind, applied to a resp. b and the same delta
TwinInduction(V, B, own, a, b) ==
    /\ a # b
    /\ isPhi(V, B, a) /\ isPhi(V, B, b)
    /\ getParent(B, a) = getParent(B, b)
    /\ getOwnershipKind(V, own, a) = "None"
    /\ getOwnershipKind(V, own, b) = "None"
    /\ V[a].ty = V[b].ty
    /\ Len(getPredecessorBlocks(B, getParent(B, a))) = 2
    /\ \A p \in Range(getPredecessorBlocks(B, getParent(B, a))) :
          LET ia == getIncomingPhiValue(V, B, a, p)
              ib == getIncomingPhiValue(V, B, b, p)
          IN \/ ia = ib
             \/ /\ ia # ib
                /\ V[ia].kind = "inst" /\ V[ib].kind = "inst"
                /\ V[ia].op = V[ib].op /\ V[ia].ty = V[ib].ty
                /\ V[ia].attr = V[ib].attr
                /\ ~HasMemoryBehavior(V[ia].op) /\ ~IsAllocationInst(V[ia].op)
                /\ Len(V[ia].ops) = 2 /\ Len(V[ib].ops) = 2
                /\ V[ia].ops[1] = a /\ V[ib].ops[1] = b
                /\ V[ia].ops[2] = V[ib].ops[2]

\* a is the first argument of its block that is a twin of b
FirstTwin(V, B, own, a, b) ==
    /\ TwinInduction(V, B, own, a, b)
    /\ getIndex(B, a) < getIndex(B, b)
    /\ \A c \in Range(B[getParent(B, a)].args) :
          TwinInduction(V, B, own, c, b) => getIndex(B, a) <= getIndex(B, c)

\* operand list ops with new in the place of old
Subst(ops, old, new) == [k \in DOMAIN ops |-> IF ops[k] = old THEN new ELSE ops[k]]

C6_BoundedPairs ==
    /\ numComb <= maxArgumentCombinations + 1
    /\ pc = "merge" => numComb <= maxArgumentCombinations
    /\ eqCalls <= maxArgumentCombinations
    /\ eqCalls <= numComb
    /\ \A r \in 1..2 : (log[r].ran /\ log[r].merges > 0) => log[r].changed
    /\ (pc = "finish" /\ changed) => runChanged

\* the cap has been hit in a block in which a merge had been made
C6_Witness ==
    /\ pc = "finish"
    /\ numComb = maxArgumentCombinations + 1
    /\ eqCalls = maxArgumentCombinations
    /\ changed /\ runChanged
    /\ Len(blocks[blk].args) < Len(blocks0[blk].args)

\* C7: a call of valuesAreEqual pops at most 16 pairs, and says "not equal"
\* when it has seen more than 16 pairs
C7_BoundedChecks ==
    /\ lastEq.pops <= maxNumberOfChecks
    /\ lastEq.handled > maxNumberOfChecks => ~lastEq.res

\* a cycle through two equal chains of instructions was too long to check
C7_Witness ==
    /\ lastEq.handled > maxNumberOfChecks
    /\ ~lastEq.res
    /\ SameValueEverywhere(vals, blocks, hasOwn, lastEq.a1, lastEq.a2)
    /\ Observable(vals, blocks, hasOwn) # {}

----------------------------------------------------------------------------
(* Phi expansion: the last optimizeArg call, before and after *)

\* the arguments the call collected; each is replaced in place when the
\* call returns true
Component == Range(lastOpt.collected)

\* the struct_extract and debug_value users the component had before the call
OldExtractions ==
    UNION {StructExtractUsers(lastOpt.vals, lastOpt.blocks, a) : a \in Component}

OldDebugValues ==
    UNION {DebugValueUsers(lastOpt.vals, lastOpt.blocks, a) : a \in Component}

\* the instructions that used an extraction result before the call
FormerUsers ==
    UNION {InstUsers(lastOpt.vals, lastOpt.blocks, e) : e \in OldExtractions}

\* a former user of an extraction result now uses the new argument in the
\* place of the result, and is otherwise as it was
Redirected(i) ==
    /\ InFunction(blocks, i)
    /\ vals[i].op = lastOpt.vals[i].op
    /\ vals[i].attr = lastOpt.vals[i].attr
    /\ vals[i].ops = [k \in DOMAIN lastOpt.vals[i].ops |->
                         LET o == lastOpt.vals[i].ops[k]
                         IN IF o \in OldExtractions THEN lastOpt.vals[o].ops[1]
                            ELSE o]

\* the users of the new arguments are former users of the extraction
\* results, or branches
OnlyFormerUsers ==
    \A a \in Component :
        /\ InstUsers(vals, blocks, a) \subseteq FormerUsers
        /\ \A b \in CondUses(blocks, a) : lastOpt.blocks[b].cond \in OldExtractions

\* C8 as stated: after a call that returned true no new argument has a
\* struct_extract or debug_value user
C8_NoExtractionUserLeft ==
    lastOpt.res =>
        /\ \A a \in Component : \A i \in InstUsers(vals, blocks, a) :
              vals[i].op \notin {"struct_extract", "debug_value"}
        /\ OnlyFormerUsers

\* C8: after a call that returned true every struct_extract and debug_value
\* that used an argument of the component before the call is erased, every
\* former user of an extraction result uses the new argument instead, and
\* the new arguments have no other user than those and branches; a
\* struct_extract or debug_value of an extraction result stays
C8_ConsumerExtractionsErased ==
    lastOpt.res =>
        /\ \A i \in OldExtractions \cup OldDebugValues : ~InFunction(blocks, i)
        /\ \A a \in Component :
              InstUsers(lastOpt.vals, lastOpt.blocks, a)
                  \subseteq OldExtractions \cup OldDebugValues
        /\ \A i \in FormerUsers : Redirected(i)
        /\ OnlyFormerUsers

\* a component of two arguments with extractions and a debug_value has been
\* rewritten, and an extraction of the extraction result uses a new argument
C8_Witness ==
    /\ lastOpt.res
    /\ Cardinality(Component) > 1
    /\ OldDebugValues # {}
    /\ Cardinality(OldExtractions) > 1
    /\ \E a \in Component : \E i \in InstUsers(vals, blocks, a) :
          vals[i].op = "struct_extract"

\* the predecessor edges of the component: <<argument, predecessor>>
Edges ==
    {e \in Component \X DOMAIN lastOpt.blocks :
        e[2] \in Range(getPredecessorBlocks(lastOpt.blocks,
                                            getParent(lastOpt.blocks, e[1])))}

IncomingBefore(e) ==
    getIncomingPhiValue(lastOpt.vals, lastOpt.blocks, e[1], e[2])

IncomingAfter(e) == getIncomingPhiValue(vals, blocks, e[1], e[2])

\* the instructions the call has added to the function
NewInsts == {i \in DOMAIN vals : i > Len(lastOpt.vals) /\ InFunction(blocks, i)}

\* the operand of edge e is a new extraction of the value the edge had, put
\* in the predecessor after all the instructions it had
ExtractionOn(e) ==
    LET x == IncomingAfter(e)
        body == blocks[e[2]].body
    IN /\ x \in NewInsts
       /\ vals[x] = Inst("struct_extract", lastOpt.field, <<IncomingBefore(e)>>,
                         lastOpt.newType, "None")
       /\ lastOpt.newType = FieldType(lastOpt.field)
       /\ x \in Range(body)
       /\ \A k \in DOMAIN body : k > IndexOf(body, x) => body[k] \in NewInsts

\* the edges whose value had the struct type before the call
AggregateEdges ==
    {e \in Edges : lastOpt.vals[IncomingBefore(e)].ty = lastOpt.vals[e[1]].ty}

\* the edges whose value was no argument of the component
OutsideEdges == {e \in Edges : IncomingBefore(e) \notin Component}

\* C9 as stated: one new extraction for every edge whose value had the
\* struct type, and no other
C9_OneExtractionPerAggregateEdge ==
    lastOpt.res =>
        /\ \A e \in AggregateEdges : ExtractionOn(e)
        /\ Cardinality(NewInsts) = Cardinality(AggregateEdges)

\* C9: after a call that returned true there is one new extraction for
\* every predecessor edge whose value was no argument of the component, in
\* front of the predecessor's terminator and feeding the edge; an edge
\* whose value was an argument of the component carries the new argument;
\* no other instruction is added
C9_OneExtractionPerOutsideEdge ==
    lastOpt.res =>
        /\ \A e \in OutsideEdges : ExtractionOn(e)
        /\ \A e \in Edges \ OutsideEdges :
              /\ IncomingAfter(e) = IncomingBefore(e)
              /\ vals[IncomingAfter(e)].ty = lastOpt.newType
        /\ \A e1, e2 \in OutsideEdges :
              IncomingAfter(e1) = IncomingAfter(e2) => e1 = e2
        /\ NewInsts = {IncomingAfter(e) : e \in OutsideEdges}
        /\ \A e \in Edges : lastOpt.vals[IncomingBefore(e)].ty = FieldOwner(lastOpt.field)

\* a component on a cycle has been rewritten: one edge came from outside,
\* one from an argument of the component, and an extraction was put in
\* front of a branch and erased again
C9_Witness ==
    /\ lastOpt.res
    /\ OutsideEdges # {}
    /\ Edges \ OutsideEdges # {}
    /\ \E i \in DOMAIN vals : i > Len(lastOpt.vals) /\ ~InFunction(blocks, i)

\* a call has been made
Called == lastOpt.arg # 0

\* C10: the loop of run() on one argument ends: a call that returns true
\* replaces the argument's struct type by the type of one of its fields,
\* which is nested less deeply, a call on a component without struct_extract
\* returns false, and the run comes to its end
C10_Converges ==
    /\ [](lastOpt.res =>
             /\ FieldOwner(lastOpt.field) = lastOpt.vals[lastOpt.arg].ty
             /\ vals[lastOpt.arg].ty = FieldType(lastOpt.field)
             /\ Depth(vals[lastOpt.arg].ty) < Depth(lastOpt.vals[lastOpt.arg].ty))
    /\ []((Called /\ OldExtractions = {}) => ~lastOpt.res)
    /\ <>(pc = "ran")

\* the run is over, and an argument of a struct in a struct has been
\* replaced twice, down to the innermost field
C10_Witness ==
    /\ pc = "ran"
    /\ invalidated
    /\ \E a \in DOMAIN vals0 :
          /\ vals0[a].kind = "SILPhiArgument"
          /\ Depth(vals0[a].ty) >= 2
          /\ Depth(vals[a].ty) = 0

----------------------------------------------------------------------------
(* Phi expansion: the calls that return false *)

\* the arguments reachable from the arguments S through branch arguments
RECURSIVE PhiGroup(_, _)
PhiGroup(B, S) ==
    LET T == S \cup UNION {DestArgs(B, a) : a \in S}
    IN IF T = S THEN S ELSE PhiGroup(B, T)

\* the group of the initial argument of the last call, before the call
GroupBefore == PhiGroup(lastOpt.blocks, {lastOpt.arg})

\* the fields extracted from the arguments of the group before the call
FieldsBefore ==
    {lastOpt.vals[i].attr :
        i \in UNION {StructExtractUsers(lastOpt.vals, lastOpt.blocks, a) :
                        a \in GroupBefore}}

\* a has a user that is no debug_value and no struct_extract, or is the
\* condition of a cond_br
HasOtherUse(V, B, a) ==
    \/ \E i \in DOMAIN V :
          /\ V[i].kind = "inst"
          /\ InFunction(B, i)
          /\ a \in Range(V[i].ops)
          /\ V[i].op # "debug_value"
          /\ V[i].op # "struct_extract"
    \/ \E b \in DOMAIN B : B[b].tkind = "cond_br" /\ B[b].cond = a

\* the function is as it was before the last call
SameIR == vals = lastOpt.vals /\ blocks = lastOpt.blocks

\* C11: a call on a group from which two different fields are extracted
\* returns false and leaves every argument, operand and instruction of
\* the function as it was
C11_MixedFieldsAbort ==
    (Called /\ Cardinality(FieldsBefore) > 1) => (~lastOpt.res /\ SameIR)

\* the call found field #1 extracted from one argument of the group and
\* field #2 from another, reached through a branch, and returned false
C11_Witness ==
    /\ Called
    /\ ~lastOpt.res
    /\ Cardinality(GroupBefore) > 1
    /\ Cardinality(FieldsBefore) > 1
    /\ \A a \in GroupBefore :
          Cardinality({lastOpt.vals[i].attr :
              i \in StructExtractUsers(lastOpt.vals, lastOpt.blocks, a)}) = 1
    /\ SameIR

----------------------------------------------------------------------------
(* Phi expansion: the calls that return true *)

\* the group of a struct phi is used, apart from debug_value and branch
\* arguments, only to extract one field
OnlyOneFieldUsed ==
    /\ Called
    /\ Depth(lastOpt.vals[lastOpt.arg].ty) >= 1
    /\ \A a \in GroupBefore : ~HasOtherUse(lastOpt.vals, lastOpt.blocks, a)
    /\ Cardinality(FieldsBefore) = 1

\* C12: a call on the group of a struct phi that is used only through one
\* field F returns true and replaces every argument of the group by a phi
\* argument of F's type, at the same index of the same block and of the
\* same ownership kind; every block keeps its number of arguments and the
\* arguments outside the group stay
C12_GroupReplacedByField ==
    OnlyOneFieldUsed =>
        /\ lastOpt.res
        /\ Component = GroupBefore
        /\ \A a \in GroupBefore :
              /\ vals[a].kind = "SILPhiArgument"
              /\ FieldsBefore = {lastOpt.field}
              /\ vals[a].ty = FieldType(lastOpt.field)
              /\ lastOpt.vals[a].ty = FieldOwner(lastOpt.field)
              /\ getParent(blocks, a) = getParent(lastOpt.blocks, a)
              /\ getIndex(blocks, a) = getIndex(lastOpt.blocks, a)
              /\ getOwnershipKind(vals, hasOwn, a)
                    = getOwnershipKind(lastOpt.vals, hasOwn, a)
        /\ \A b \in DOMAIN blocks :
              Len(blocks[b].args) = Len(lastOpt.blocks[b].args)
        /\ \A a \in AllArgs(lastOpt.blocks) \ GroupBefore :
              /\ vals[a] = lastOpt.vals[a]
              /\ getParent(blocks, a) = getParent(lastOpt.blocks, a)
              /\ getIndex(blocks, a) = getIndex(lastOpt.blocks, a)

\* a group of two @guaranteed struct phis on a cycle, used through one
\* field only, has been replaced, next to an argument outside the group
C12_Witness ==
    /\ OnlyOneFieldUsed
    /\ lastOpt.res
    /\ Cardinality(GroupBefore) > 1
    /\ \E a \in GroupBefore :
          /\ a \in PhiGroup(lastOpt.blocks, DestArgs(lastOpt.blocks, a))
          /\ getOwnershipKind(vals, hasOwn, a) = "Guaranteed"
    /\ AllArgs(lastOpt.blocks) \ GroupBefore # {}

----------------------------------------------------------------------------
(* Phi expansion: what the function computes *)

\* along every path: what the applies see, and the results of the
\* instructions U
ViewOf(V, B, own, U) ==
    {<<e.obs, [i \in U |-> e.env[i]]>> : e \in Executions(V, B, own)}

\* along every path every new argument holds field F of the struct the old
\* argument held
HoldsField ==
    \A e \in Executions(vals, blocks, hasOwn) :
        \E d \in Executions(lastOpt.vals, lastOpt.blocks, hasOwn) :
            /\ d.obs = e.obs
            /\ \A a \in Component : e.env[a] = Extract(d.env[a], lastOpt.field)

\* C13: after a call that returned true, on every path, through the cycles
\* of the component too, the instructions that used the result of an
\* extraction from an argument of the component see and yield the values
\* they did before, and the new arguments hold field F of the struct that
\* reached the old ones
C13_ExpansionPreservesValues ==
    lastOpt.res =>
        /\ ViewOf(vals, blocks, hasOwn, FormerUsers)
              = ViewOf(lastOpt.vals, lastOpt.blocks, hasOwn, FormerUsers)
        /\ HoldsField

\* a component on a cycle has been rewritten, a path goes round the cycle,
\* and an apply and a struct_extract used the extraction results
C13_Witness ==
    /\ lastOpt.res
    /\ Edges \ OutsideEdges # {}
    /\ \E i, j \in FormerUsers :
          vals[i].op = "apply" /\ vals[j].op = "struct_extract"
    /\ \E e \in Executions(vals, blocks, hasOwn) :
          /\ e.done
          /\ Cardinality({k \in DOMAIN e.obs : e.obs[k][1] # 0}) >= 4

----------------------------------------------------------------------------
(* Change reporting *)

\* the block arguments the function had at first that are replaced by now
ReplacedArgs == {a \in AllArgs(blocks0) : vals[a] # vals0[a]}

\* C14: a run of either pass calls invalidateAnalysis exactly if it erased
\* or replaced a block argument, and a run on a function that should not
\* be optimized changes nothing and reports nothing
C14_ChangeReported ==
    /\ \A r \in 1..2 :
          log[r].ran => (log[r].invalidated <=> log[r].merges > 0)
    /\ (~OnStructs /\ pc = "ran" /\ runNo = 1) =>
          (invalidated <=> AllArgs(blocks) # AllArgs(blocks0))
    /\ (OnStructs /\ pc = "ran") => (invalidated <=> ReplacedArgs # {})
    /\ (pc = "ran" /\ ~shouldOpt) =>
          (vals = vals0 /\ blocks = blocks0 /\ ~invalidated)

\* a first run erased arguments and reported it, and a second run erased
\* none and reported nothing
C14_Witness ==
    /\ pc = "ran"
    /\ runNo = 2
    /\ log[1].invalidated
    /\ log[1].merges > 0
    /\ log[2].ran
    /\ ~log[2].invalidated
    /\ ~invalidated

----------------------------------------------------------------------------
(* Phi expansion is all-or-nothing *)

\* an argument of the group has a use that is no debug_value, no
\* struct_extract and no branch argument
OtherUseBefore ==
    \E a \in GroupBefore : HasOtherUse(lastOpt.vals, lastOpt.blocks, a)

\* C15: a call returns false exactly if an argument of the group has an
\* other use (the condition of a cond_br is one), or no field is extracted
\* from the group, or two are; the function is then as it was before the
\* call, and it is changed only by a call that returned true
C15_AllOrNothing ==
    Called =>
        /\ ~lastOpt.res => SameIR
        /\ ~SameIR => lastOpt.res
        /\ OtherUseBefore => ~lastOpt.res
        /\ FieldsBefore = {} => ~lastOpt.res
        /\ lastOpt.res => (~OtherUseBefore /\ Cardinality(FieldsBefore) = 1)

\* after an argument of the block had been replaced, a call on an argument
\* used as the condition of a cond_br and as a branch argument returned
\* false
C15_Witness ==
    /\ Called
    /\ ~lastOpt.res
    /\ CondUses(lastOpt.blocks, lastOpt.arg) # {}
    /\ BranchUses(lastOpt.blocks, lastOpt.arg) # {}
    /\ SameIR
    /\ ReplacedArgs # {}

----------------------------------------------------------------------------
(* Claims C16 - C19: the merge policy and the reach of valuesAreEqual *)

\* the argument a merge of the compared pair erases under the stated policy:
\* the Owned one next to a None one, and the second one otherwise
PolicyErased(V, own, a1, a2) ==
    IF own /\ V[a1].own = "Owned" /\ V[a2].own = "None" THEN a1 ELSE a2

PolicySurvivor(V, own, a1, a2) ==
    IF PolicyErased(V, own, a1, a2) = a1 THEN a2 ELSE a1

BothOwned(V, own, a1, a2) ==
    own /\ V[a1].own = "Owned" /\ V[a2].own = "Owned"

\* a merge step of optimizeArgs on the pair valuesAreEqual was last called on
MergeStep == pc = "merge" /\ pc' = "args"

\* what a merge step does to the pair: one argument e goes and is left
\* without a use, the other one stays, and every operand that was e is t
MergedInto(e, s, t) ==
    /\ getParent(blocks', e) = 0
    /\ getParent(blocks', s) = blk
    /\ AllArgs(blocks') = AllArgs(blocks) \ {e}
    /\ use_empty(vals', blocks', e)
    /\ \A i \in DOMAIN vals : vals'[i].ops = Subst(vals[i].ops, e, t)
    /\ \A p \in DOMAIN blocks :
          /\ blocks'[p].cond = (IF blocks[p].cond = e THEN t ELSE blocks[p].cond)
          /\ \A j \in DOMAIN blocks[p].targs :
                blocks'[p].targs[j] =
                    IF blocks[p].dests[j] = blk
                    THEN RemoveAt(Subst(blocks[p].targs[j], e, t),
                                  getIndex(blocks, e))
                    ELSE Subst(blocks[p].targs[j], e, t)

\* C16: a merge erases exactly one argument of the pair and leaves it without
\* uses. With ownership, next to a None argument the Owned one goes and its
\* uses go to the None one; of two Owned ones the second goes and its uses go
\* to a new copy_value of the first at the front of the block; in every other
\* case, and without ownership, the second goes and its uses go to the first
C16_MergePolicy ==
    [][MergeStep =>
        LET a1 == lastEq.a1
            a2 == lastEq.a2
            e == PolicyErased(vals, hasOwn, a1, a2)
            s == PolicySurvivor(vals, hasOwn, a1, a2)
            copy == Len(vals) + 1
        IN IF BothOwned(vals, hasOwn, a1, a2)
           THEN /\ MergedInto(e, s, copy)
                /\ copy \in DOMAIN vals'
                /\ vals'[copy].op = "copy_value"
                /\ vals'[copy].ops = <<a1>>
                /\ Head(blocks'[blk].body) = copy
           ELSE /\ MergedInto(e, s, s)
                /\ \A i \in DOMAIN vals' \ DOMAIN vals :
                      vals'[i].op # "copy_value"]_vars

\* an Owned first argument has been merged into the None second one: the
\* first one is gone, the second one is in place
C16_Witness ==
    /\ pc = "args"
    /\ hasOwn
    /\ lastEq.res
    /\ vals[lastEq.a1].own = "Owned"
    /\ vals[lastEq.a2].own = "None"
    /\ getParent(blocks, lastEq.a1) = 0
    /\ getParent(blocks, lastEq.a2) = blk
    /\ use_empty(vals, blocks, lastEq.a1)

\* the incoming values of the phi arguments in todo, and of every phi
\* argument among them, and so on, round every cycle
RECURSIVE ReachableIncoming(_, _, _, _)
ReachableIncoming(V, B, todo, seen) ==
    IF todo = {} THEN {}
    ELSE LET phi == CHOOSE x \in todo : TRUE
             inc == Range(getIncomingPhiValues(V, B, phi))
             more == {v \in inc : isPhi(V, B, v)} \ (seen \cup {phi})
         IN inc \cup ReachableIncoming(V, B, (todo \ {phi}) \cup more,
                                       seen \cup {phi})

\* the Owned arguments of the pair valuesAreEqual has just found equal
OwnedOfPair ==
    {a \in {lastEq.a1, lastEq.a2} : getOwnershipKind(vals, hasOwn, a) = "Owned"}

\* C17, as claimed: when valuesAreEqual has returned true for a pair with an
\* Owned phi argument, every value that reaches that argument through phi
\* arguments is a phi argument or has ownership None, so that the asserts
\* on hasOnlyNoneOwnershipIncomingValues hold and no build stops at them
C17_OwnedEqualOnlyOverNone ==
    /\ pc # "abort"
    /\ pc = "merge" =>
          \A a \in OwnedOfPair :
              /\ \A v \in ReachableIncoming(vals, blocks, {a}, {}) :
                    \/ isPhi(vals, blocks, v)
                    \/ getOwnershipKind(vals, hasOwn, v) = "None"
              /\ hasOnlyNoneOwnershipIncomingValues(vals, blocks, hasOwn, a)

\* optimizeArgs is about to return from the current block because its loops
\* are over
LoopsOver ==
    /\ pc = "args"
    /\ ~LoopPosition(arg1Idx, arg2Idx, Len(blocks[blk].args)).more

AllPhis(b) == \A a \in Range(blocks[b].args) : isPhi(vals, blocks, a)

\* C18, as claimed: when optimizeArgs returns from a block of phi arguments
\* without having hit the cap of 48 pairs, it has called valuesAreEqual on
\* every pair of arguments that are left in the block
C18_EveryPairTested ==
    LoopsOver /\ AllPhis(blk) /\ numComb <= maxArgumentCombinations =>
        \A i \in DOMAIN blocks[blk].args, j \in DOMAIN blocks[blk].args :
            i < j => \/ <<blocks[blk].args[i], blocks[blk].args[j]>> \in tested
                     \/ <<blocks[blk].args[j], blocks[blk].args[i]>> \in tested

\* the pairs valuesAreEqual pushes after a pair of distinct values: the
\* incoming values of two phi arguments of one block, the operands of two
\* instructions
PairsBelow(V, B, u, v) ==
    IF u = v THEN {}
    ELSE IF isPhi(V, B, u) /\ isPhi(V, B, v) /\ getParent(B, u) = getParent(B, v)
    THEN Range(IncomingPairs(V, B, u, v))
    ELSE IF V[u].kind = "inst" /\ V[v].kind = "inst"
            /\ Len(V[u].ops) = Len(V[v].ops)
    THEN Range(OperandPairs(V, u, v))
    ELSE {}

\* every pair the worklist of valuesAreEqual gets to from the pairs in todo
\* if it is not stopped before
RECURSIVE PairsReached(_, _, _, _)
PairsReached(V, B, todo, seen) ==
    IF todo = {} THEN seen
    ELSE LET pr == CHOOSE x \in todo : TRUE
             more == PairsBelow(V, B, pr[1], pr[2]) \ (seen \cup {pr})
         IN PairsReached(V, B, (todo \ {pr}) \cup more, seen \cup {pr})

\* two distinct instructions of which the first has a memory behaviour or
\* allocates
SideEffectPair(V, u, v) ==
    /\ u # v
    /\ V[u].kind = "inst" /\ V[v].kind = "inst"
    /\ HasMemoryBehavior(V[u].op) \/ IsAllocationInst(V[u].op)

\* two distinct values of different kinds, or that are neither two phi
\* arguments nor two instructions
UnrelatedPair(V, u, v) ==
    /\ u # v
    /\ \/ getKind(V, u) # getKind(V, v)
       \/ ~(V[u].kind = "SILPhiArgument" /\ V[v].kind = "SILPhiArgument")
          /\ ~(V[u].kind = "inst" /\ V[v].kind = "inst")

\* valuesAreEqual has returned and the IR is as it was when it was called:
\* it returned true and the merge is still to come, or it returned false
CallJustReturned ==
    \/ pc = "merge"
    \/ pc = "args" /\ eqCalls > 0 /\ ~lastEq.res

\* C19: valuesAreEqual returns false whenever its worklist gets to a pair of
\* distinct instructions of which the first has a memory behaviour or is an
\* allocation, whatever else the two share, and whenever it gets to a pair
\* of distinct values of different kinds or that are neither two phi
\* arguments nor two instructions
C19_NeverEqual ==
    CallJustReturned =>
        \A pr \in PairsReached(vals, blocks, {<<lastEq.a1, lastEq.a2>>}, {}) :
            (\/ SideEffectPair(vals, pr[1], pr[2])
             \/ UnrelatedPair(vals, pr[1], pr[2])) => ~lastEq.res

\* valuesAreEqual has returned false for two phis fed by two allocations
\* that are the same in opcode, attributes and operands
C19_Witness ==
    /\ pc = "args"
    /\ eqCalls > 0
    /\ ~lastEq.res
    /\ \E pr \in PairsBelow(vals, blocks, lastEq.a1, lastEq.a2) :
          /\ pr[1] # pr[2]
          /\ IsAllocationInst(vals[pr[1]].op)
          /\ ~HasMemoryBehavior(vals[pr[1]].op)
          /\ IdenticalShape(vals, pr[1], pr[2])
          /\ hasIdenticalState(vals, pr[1], pr[2])
          /\ vals[pr[1]].ops = vals[pr[2]].ops

====
